---------------------------- MODULE Spec2Model ----------------------------
(***************************************************************************)
(* A model of the influx shell's command-line core, cmd/influx/cli/cli.go: *)
(* the identifier parser (parseNextIdentifier and its helpers), the INSERT *)
(* pre-processor (Insert, parseInto) and the result formatter              *)
(* (FormatResponse, writeJSON, writeCSV, writeColumns, formatResults,      *)
(* interfaceToString).                                                     *)
(*                                                                         *)
(* Text is modelled as a sequence of character codes (ASCII), so that the  *)
(* byte-wise comparisons, prefixes, joins and splits of the Go code are    *)
(* computed and not assumed.                                               *)
(***************************************************************************)
EXTENDS Integers, Sequences, FiniteSets, TLC

VARIABLES
    input,            \* the argument of the call under way: a statement, a Result or a Response
    pc,               \* "call" before the operation has run, "done" after it returned
    ident,            \* parseNextIdentifier's first return value
    remainder,        \* parseNextIdentifier's second return value
    Database,         \* CommandLine.Database
    RetentionPolicy,  \* CommandLine.RetentionPolicy
    Format,           \* CommandLine.Format
    Pretty,           \* CommandLine.Pretty
    written,          \* the BatchPoints handed to Client.Write, in order
    tagOrders,        \* the order in which the last formatting visited each series' tag map
    rows,             \* the slice formatResults returned
    w,                \* the io.Writer passed to FormatResponse: "stdout" or "buffer"
    streams,          \* what each stream received, in order
    Quit,             \* CommandLine.Quit: "open" or "closed" (nothing is ever sent on it)
    osSignals,        \* CommandLine.osSignals: the number of signals buffered (capacity 1)
    prompts,          \* the number of times Line.Prompt has returned
    returned,         \* what the last call of ParseCommand returned
    reply,            \* how the server answered the last command: "none" when it was not asked
    history           \* the lines handed to Line.AppendHistory, in order

vars == <<input, pc, ident, remainder, Database, RetentionPolicy, Format, Pretty,
          written, tagOrders, rows, w, streams,
          Quit, osSignals, prompts, returned, reply, history>>

\* The fields and the terminal state only the interactive loop touches.
loopVars == <<Quit, osSignals, prompts, returned, reply, history>>

---------------------------------------------------------------------------
(* Characters *)

TAB == 9
NL == 10
SP == 32
QUOTE == 34
COMMA == 44
DASH == 45
DOT == 46
DIGIT0 == 48
DIGIT9 == 57
EQUALS == 61
UPPER_A == 65
UPPER_Z == 90
BSLASH == 92
UNDERSCORE == 95
LOWER_A == 97
LOWER_Z == 122
CR == 13
VT == 11
FF == 12

\* A whitespace test that forgets the tab.
isWhitespaceNoTab(ch) == ch = SP \/ ch = NL

\* isWhitespace returns true if the rune is a space, tab, or newline.
isWhitespace(ch) == ch = SP \/ ch = TAB \/ ch = NL

\* isLetter returns true if the rune is a letter.
isLetter(ch) == (ch >= LOWER_A /\ ch <= LOWER_Z) \/ (ch >= UPPER_A /\ ch <= UPPER_Z)

\* isDigit returns true if the rune is a digit.
isDigit(ch) == ch >= DIGIT0 /\ ch <= DIGIT9

\* isIdentFirstChar: the rune can start an unquoted identifier.
isIdentFirstChar(ch) == isLetter(ch) \/ ch = UNDERSCORE

\* isNotIdentChar: the rune cannot be part of an unquoted identifier.
isNotIdentChar(ch) == ~(isLetter(ch) \/ isDigit(ch) \/ ch = UNDERSCORE)

---------------------------------------------------------------------------
(* The string functions of the Go library the code calls *)

\* strings.HasPrefix
HasPrefix(s, p) == Len(p) <= Len(s) /\ SubSeq(s, 1, Len(p)) = p

\* strings.TrimPrefix
TrimPrefix(s, p) == IF HasPrefix(s, p) THEN SubSeq(s, Len(p) + 1, Len(s)) ELSE s

\* s[1:]
Tail1(s) == SubSeq(s, 2, Len(s))

\* strings.ToLower on ASCII text
LowerCh(ch) == IF ch >= UPPER_A /\ ch <= UPPER_Z THEN ch + (LOWER_A - UPPER_A) ELSE ch
ToLower(s) == [i \in 1..Len(s) |-> LowerCh(s[i])]

\* strings.EqualFold on ASCII text
EqualFold(s, t) == ToLower(s) = ToLower(t)

\* strings.FieldsFunc(s, f), given sep[i] = the value f returned for s[i]: the
\* maximal runs of characters that are not separators, in order. start is the
\* index where the field under way began, 0 when none is under way.
RECURSIVE FieldsFrom(_, _, _, _)
FieldsFrom(s, sep, i, start) ==
    IF i > Len(s)
    THEN IF start > 0 THEN <<SubSeq(s, start, Len(s))>> ELSE <<>>
    ELSE IF sep[i]
         THEN (IF start > 0 THEN <<SubSeq(s, start, i - 1)>> ELSE <<>>)
              \o FieldsFrom(s, sep, i + 1, 0)
         ELSE FieldsFrom(s, sep, i + 1, IF start > 0 THEN start ELSE i)

FieldsFunc(s, sep) == FieldsFrom(s, sep, 1, 0)

---------------------------------------------------------------------------
(* The identifier parser *)

parseUnquotedIdentifier(stmt) ==
    LET fields == FieldsFunc(stmt, [i \in 1..Len(stmt) |-> isNotIdentChar(stmt[i])])
    IN  IF Len(fields) > 0
        THEN <<fields[1], TrimPrefix(stmt, fields[1])>>
        ELSE <<<<>>, stmt>>

\* The closure parseDoubleQuotedIdentifier hands to FieldsFunc, called once per
\* character from left to right: its answers for stmt[i..], escapeNext being the
\* closure's variable. A backslash sets escapeNext; only a double quote clears it.
RECURSIVE quoteSeparators(_, _, _)
quoteSeparators(stmt, i, escapeNext) ==
    IF i > Len(stmt) THEN <<>>
    ELSE IF stmt[i] = BSLASH
         THEN <<FALSE>> \o quoteSeparators(stmt, i + 1, TRUE)
         ELSE IF stmt[i] = QUOTE
              THEN IF ~escapeNext
                   THEN <<TRUE>> \o quoteSeparators(stmt, i + 1, escapeNext)
                   ELSE <<FALSE>> \o quoteSeparators(stmt, i + 1, FALSE)
              ELSE <<FALSE>> \o quoteSeparators(stmt, i + 1, escapeNext)

parseDoubleQuotedIdentifier(stmt) ==
    LET fields == FieldsFunc(stmt, quoteSeparators(stmt, 1, FALSE))
    IN  IF Len(fields) > 0
        THEN <<fields[1], TrimPrefix(stmt, <<QUOTE>> \o fields[1] \o <<QUOTE>>)>>
        ELSE <<<<>>, stmt>>

RECURSIVE parseNextIdentifier(_)
parseNextIdentifier(stmt) ==
    IF Len(stmt) > 0
    THEN IF isWhitespace(stmt[1]) THEN parseNextIdentifier(Tail1(stmt))
         ELSE IF isIdentFirstChar(stmt[1]) THEN parseUnquotedIdentifier(stmt)
         ELSE IF stmt[1] = QUOTE THEN parseDoubleQuotedIdentifier(stmt)
         ELSE <<<<>>, stmt>>
    ELSE <<<<>>, stmt>>

---------------------------------------------------------------------------
(* Bounded inputs of the parser *)

\* The longest statement drawn from the alphabet.
MaxStmtLen == 5

ParseAlphabet == {SP, TAB, QUOTE, BSLASH, DOT, LOWER_A, DIGIT0}

\* ` "a\"b" rest`
QuotedExample == <<SP, QUOTE, 97, BSLASH, QUOTE, 98, QUOTE, SP, 114, 101, 115, 116>>

ParseInputs ==
    UNION {[1..n -> ParseAlphabet] : n \in 0..MaxStmtLen} \cup {QuotedExample}

Empty == <<>>

\* New(): both channels made with room for one element, nothing read, nothing run.
LoopDefaults ==
    /\ Quit = "open"
    /\ osSignals = 0
    /\ prompts = 0
    /\ returned = FALSE
    /\ reply = "none"
    /\ history = <<>>

\* The state of the shell after New(): no database, no retention policy.
ShellDefaults ==
    /\ LoopDefaults
    /\ Database = Empty
    /\ RetentionPolicy = Empty
    /\ Format = "column"
    /\ Pretty = FALSE
    /\ written = <<>>
    /\ tagOrders = <<>>
    /\ rows = <<>>
    /\ w = "stdout"
    /\ streams = [stdout |-> <<>>, buffer |-> <<>>]

InitParse ==
    /\ input \in ParseInputs
    /\ pc = "call"
    /\ ident = Empty
    /\ remainder = Empty
    /\ ShellDefaults

ParseNextIdentifier ==
    /\ pc = "call"
    /\ LET r == parseNextIdentifier(input)
       IN  /\ ident' = r[1]
           /\ remainder' = r[2]
    /\ pc' = "done"
    /\ UNCHANGED loopVars
    /\ UNCHANGED <<input, Database, RetentionPolicy, Format, Pretty, written, tagOrders, rows, w,
                   streams>>

NextParse == ParseNextIdentifier

SpecParse == InitParse /\ [][NextParse]_vars

---------------------------------------------------------------------------
(* INSERT: Insert and parseInto *)

\* "insert", "into"
KW_INSERT == <<105, 110, 115, 101, 114, 116>>
KW_INTO == <<105, 110, 116, 111>>

\* A line printed on the terminal with fmt.Printf or fmt.Println.
Printed(msg, arg) == [via |-> "print", msg |-> msg, text |-> arg, record |-> <<>>]

\* parseInto that stores the identifier before the dot as retention policy too.
parseIntoDotAsPolicy(stmt, db, rp) ==
    LET first == parseNextIdentifier(stmt)
        dot == HasPrefix(first[2], <<DOT>>)
        second == IF dot THEN parseNextIdentifier(Tail1(first[2])) ELSE first
        space == HasPrefix(second[2], <<SP>>)
    IN  [Database |-> IF dot THEN first[1] ELSE db,
         RetentionPolicy |-> IF space THEN first[1] ELSE rp,
         point |-> IF space THEN Tail1(second[2]) ELSE second[2],
         out |-> (IF dot THEN <<Printed("Using database %s", first[1])>> ELSE <<>>)
                 \o (IF space THEN <<Printed("Using retention policy %s", first[1])>>
                     ELSE <<>>)]

\* parseInto(stmt) with c.Database = db and c.RetentionPolicy = rp on entry: the
\* two fields on return, the string returned and the lines printed.
parseInto(stmt, db, rp) ==
    LET first == parseNextIdentifier(stmt)
        dot == HasPrefix(first[2], <<DOT>>)
        second == IF dot THEN parseNextIdentifier(Tail1(first[2])) ELSE first
        space == HasPrefix(second[2], <<SP>>)
    IN  [Database |-> IF dot THEN first[1] ELSE db,
         RetentionPolicy |-> IF space THEN second[1] ELSE rp,
         point |-> IF space THEN Tail1(second[2]) ELSE second[2],
         out |-> (IF dot THEN <<Printed("Using database %s", first[1])>> ELSE <<>>)
                 \o (IF space THEN <<Printed("Using retention policy %s", second[1])>>
                     ELSE <<>>)]

\* The hint Insert prints after a failed write when no database is set.
InsertHint ==
    <<Printed("Note: error may be due to not setting a database or retention policy.", Empty),
      Printed("Please set a database with the command \"use <database>\" or", Empty),
      Printed("INSERT INTO <database>.<retention-policy> <point>", Empty)>>

\* Insert(stmt), the write succeeding or failing as the server decides. The
\* WriteConsistency field is passed through to the write untouched.
Insert ==
    /\ pc = "call"
    /\ LET first == parseNextIdentifier(input)
       IN  IF ~EqualFold(first[1], KW_INSERT)
           THEN /\ streams' = [streams EXCEPT !.stdout =
                       @ \o <<Printed("ERR: found %s, expected INSERT", first[1])>>]
                /\ UNCHANGED <<Database, RetentionPolicy, written>>
           ELSE LET second == parseNextIdentifier(first[2])
                    into == IF EqualFold(second[1], KW_INTO)
                            THEN parseInto(second[2], Database, RetentionPolicy)
                            ELSE [Database |-> Database,
                                  RetentionPolicy |-> RetentionPolicy,
                                  point |-> first[2],
                                  out |-> <<>>]
                IN  /\ Database' = into.Database
                    /\ RetentionPolicy' = into.RetentionPolicy
                    /\ written' = Append(written,
                           [Raw |-> into.point,
                            Database |-> into.Database,
                            RetentionPolicy |-> into.RetentionPolicy,
                            Precision |-> "n"])
                    /\ \E err \in BOOLEAN :
                           streams' = [streams EXCEPT !.stdout =
                               @ \o into.out
                                 \o (IF err THEN <<Printed("ERR: %s", Empty)>> ELSE <<>>)
                                 \o (IF err /\ into.Database = Empty
                                     THEN InsertHint ELSE <<>>)]
    /\ pc' = "done"
    /\ UNCHANGED loopVars
    /\ UNCHANGED <<input, ident, remainder, Format, Pretty, tagOrders, rows, w>>

\* The longest text drawn from the alphabet to follow the statement's first words.
MaxTailLen == 4

\* space, dot, double quote, a, b
InsertAlphabet == {SP, DOT, QUOTE, LOWER_A, 98}

\* "INSERT INTO ", "insert Into ", "INSERT INTO", "INSERT ", "INSER "
InsertHeads ==
    {<<73, 78, 83, 69, 82, 84, 32, 73, 78, 84, 79, 32>>,
     <<105, 110, 115, 101, 114, 116, 32, 73, 110, 116, 111, 32>>,
     <<73, 78, 83, 69, 82, 84, 32, 73, 78, 84, 79>>,
     <<73, 78, 83, 69, 82, 84, 32>>,
     <<73, 78, 83, 69, 82, 32>>}

\* `INSERT INTO mydb.rp value`
InsertDotExample ==
    <<73, 78, 83, 69, 82, 84, 32, 73, 78, 84, 79, 32,
      109, 121, 100, 98, 46, 114, 112, 32, 118, 97, 108, 117, 101>>

\* `INSERT INTO rp value`
InsertPolicyExample ==
    <<73, 78, 83, 69, 82, 84, 32, 73, 78, 84, 79, 32, 114, 112, 32, 118, 97, 108, 117, 101>>

InsertInputs ==
    {h \o t : h \in InsertHeads,
              t \in UNION {[1..n -> InsertAlphabet] : n \in 0..MaxTailLen}}
    \cup {InsertDotExample, InsertPolicyExample}

\* The database a `use d` selected earlier, the retention policy an earlier
\* `INSERT INTO r ...` left.
PriorDatabases == {Empty, <<100>>}
PriorPolicies == {Empty, <<114>>}

InitInsert ==
    /\ input \in InsertInputs
    /\ pc = "call"
    /\ ident = Empty
    /\ remainder = Empty
    /\ Database \in PriorDatabases
    /\ RetentionPolicy \in PriorPolicies
    /\ Format = "column"
    /\ Pretty = FALSE
    /\ written = <<>>
    /\ tagOrders = <<>>
    /\ rows = <<>>
    /\ w = "stdout"
    /\ streams = [stdout |-> <<>>, buffer |-> <<>>]
    /\ LoopDefaults

NextInsert == Insert

SpecInsert == InitInsert /\ [][NextInsert]_vars

---------------------------------------------------------------------------
(* The result formatter: text helpers *)

\* strings.Join(a, sep)
RECURSIVE Join(_, _)
Join(a, sep) ==
    IF Len(a) = 0 THEN Empty
    ELSE IF Len(a) = 1 THEN a[1]
    ELSE a[1] \o sep \o Join(Tail(a), sep)

\* strings.Split(s, sep) for a separator of one character: the pieces between
\* the separators, empty pieces included; one piece when s holds no separator.
RECURSIVE SplitFrom(_, _, _, _)
SplitFrom(s, ch, i, start) ==
    IF i > Len(s) THEN <<SubSeq(s, start, Len(s))>>
    ELSE IF s[i] = ch
         THEN <<SubSeq(s, start, i - 1)>> \o SplitFrom(s, ch, i + 1, i + 1)
         ELSE SplitFrom(s, ch, i + 1, start)

Split(s, ch) == SplitFrom(s, ch, 1, 1)

\* strings.Repeat("-", n)
Repeat(ch, n) == [i \in 1..n |-> ch]

\* a < b for Go strings: byte-wise lexicographic order.
RECURSIVE StringLess(_, _)
StringLess(a, b) ==
    IF Len(b) = 0 THEN FALSE
    ELSE IF Len(a) = 0 THEN TRUE
    ELSE IF a[1] # b[1] THEN a[1] < b[1]
    ELSE StringLess(Tail(a), Tail(b))

\* The sorted slice with one more string put at its place.
RECURSIVE InsertSorted(_, _)
InsertSorted(a, x) ==
    IF Len(a) = 0 THEN <<x>>
    ELSE IF StringLess(x, a[1]) THEN <<x>> \o a
    ELSE <<a[1]>> \o InsertSorted(Tail(a), x)

\* A sort that leaves the slice as it is.
SortStringsSkipped(a) == a

\* sort.Strings(a)
RECURSIVE SortStrings(_)
SortStrings(a) ==
    IF Len(a) = 0 THEN a ELSE InsertSorted(SortStrings(SubSeq(a, 1, Len(a) - 1)), a[Len(a)])

\* The decimal digits of n >= 0.
RECURSIVE Digits(_)
Digits(n) == IF n < 10 THEN <<DIGIT0 + n>> ELSE Digits(n \div 10) \o <<DIGIT0 + (n % 10)>>

\* fmt.Sprintf("%d", n)
FormatInt(n) == IF n < 0 THEN <<DASH>> \o Digits(-n) ELSE Digits(n)

\* fmt.Sprintf("%v", f) for the float64 f = halves / 2: the shortest decimal that
\* reads back as f, which for these values has at most one fractional digit.
FormatFloat(halves) ==
    IF halves % 2 = 0 THEN FormatInt(halves \div 2)
    ELSE (IF halves < 0 THEN <<DASH>> ELSE Empty)
         \o Digits((IF halves < 0 THEN -halves ELSE halves) \div 2) \o <<DOT, 53>>

\* A value of a row as the JSON decoder leaves it: nil, a bool, an integer, a
\* float64 (held as its double, val = 2f) or a string.
interfaceToString(v) ==
    CASE v.type = "nil" -> Empty
      [] v.type = "bool" -> IF v.val THEN <<116, 114, 117, 101>> ELSE <<102, 97, 108, 115, 101>>
      [] v.type = "int" -> FormatInt(v.val)
      [] v.type = "float" -> FormatFloat(v.val)
      [] OTHER -> v.val

---------------------------------------------------------------------------
(* formatResults *)

\* "name", "tags", "name: ", "tags: "
S_NAME == <<110, 97, 109, 101>>
S_TAGS == <<116, 97, 103, 115>>
S_NAME_COLON == <<110, 97, 109, 101, 58, 32>>
S_TAGS_COLON == <<116, 97, 103, 115, 58, 32>>

\* The loop over row.Tags visiting the keys in the order `order`: every tag is
\* appended as key=value and the slice is sorted after each append.
RECURSIVE gatherTags(_, _)
gatherTags(tags, order) ==
    IF Len(order) = 0 THEN <<>>
    ELSE LET k == order[Len(order)]
         IN  SortStrings(Append(gatherTags(tags, SubSeq(order, 1, Len(order) - 1)),
                                k \o <<EQUALS>> \o tags[k]))

\* One data row of a series.
valueRow(row, v, tags, format, separator) ==
    Join((IF format = "csv" /\ row.Name # Empty THEN <<row.Name>> ELSE <<>>)
         \o (IF format = "csv" /\ Len(tags) > 0 THEN <<Join(tags, <<COMMA>>)>> ELSE <<>>)
         \o [j \in 1..Len(v) |-> interfaceToString(v[j])],
         separator)

\* A separator line before every series, the first one too.
leadingSeparatorAlways(i, format) == IF format = "column" THEN <<Empty>> ELSE <<>>

\* The line separator put before a series that is not the first.
leadingSeparator(i, format) == IF i > 0 /\ format = "column" THEN <<Empty>> ELSE <<>>

\* The name line underlined whether or not the series has tags.
nameAndTagLinesUnderlined(row, tags, format) ==
    LET n == S_NAME_COLON \o row.Name
    IN  (IF format = "column" /\ row.Name # Empty
         THEN <<n, Repeat(DASH, Len(n))>>
         ELSE <<>>)
        \o (IF format = "column" /\ Len(tags) > 0
            THEN <<S_TAGS_COLON \o Join(tags, <<COMMA, SP>>)>>
            ELSE <<>>)

\* Column format: the name and the tags on lines of their own.
nameAndTagLines(row, tags, format) ==
    LET n == S_NAME_COLON \o row.Name
    IN  (IF format = "column" /\ row.Name # Empty
         THEN <<n>> \o (IF Len(tags) = 0 THEN <<Repeat(DASH, Len(n))>> ELSE <<>>)
         ELSE <<>>)
        \o (IF format = "column" /\ Len(tags) > 0
            THEN <<S_TAGS_COLON \o Join(tags, <<COMMA, SP>>)>>
            ELSE <<>>)

\* The header underlined in column format whether or not the series has tags.
headerUnderlineAlways(columnNames, tags, format, separator) ==
    IF format = "column"
    THEN <<Join([j \in 1..Len(columnNames) |-> Repeat(DASH, Len(columnNames[j]))], separator)>>
    ELSE <<>>

\* Column format with tags: a run of dashes under every column name.
headerUnderline(columnNames, tags, format, separator) ==
    IF format = "column" /\ Len(tags) > 0
    THEN <<Join([j \in 1..Len(columnNames) |-> Repeat(DASH, Len(columnNames[j]))], separator)>>
    ELSE <<>>

\* The line separator put after the rows of a series.
trailingSeparator(format) == IF format = "column" THEN <<Empty>> ELSE <<>>

\* The body of formatResults' loop for the series row at index i (from 0), its
\* tag map visited in the order `order`: the rows it appends.
formatSeries(i, row, format, separator, order) ==
    LET tags == gatherTags(row.Tags, order)
        columnNames ==
            (IF format = "csv" /\ row.Name # Empty THEN <<S_NAME>> ELSE <<>>)
            \o (IF format = "csv" /\ Len(tags) > 0 THEN <<S_TAGS>> ELSE <<>>)
            \o row.Columns
    IN  leadingSeparator(i, format)
        \o nameAndTagLines(row, tags, format)
        \o <<Join(columnNames, separator)>>
        \o headerUnderline(columnNames, tags, format, separator)
        \o [r \in 1..Len(row.Values) |-> valueRow(row, row.Values[r], tags, format, separator)]
        \o trailingSeparator(format)

\* formatResults(result, separator) with c.Format = format; orders[i] is the order
\* in which the tag map of the i-th series is visited.
RECURSIVE formatResultsFrom(_, _, _, _, _)
formatResultsFrom(series, i, format, separator, orders) ==
    IF i > Len(series) THEN <<>>
    ELSE formatSeries(i - 1, series[i], format, separator, orders[i])
         \o formatResultsFrom(series, i + 1, format, separator, orders)

formatResults(result, format, separator, orders) ==
    formatResultsFrom(result.Series, 1, format, separator, orders)

\* The orders a Go map with these keys can be visited in.
VisitOrders(S) ==
    {p \in [1..Cardinality(S) -> S] : \A i, j \in 1..Cardinality(S) : i # j => p[i] # p[j]}

\* One visiting order for each series of the result.
IterationOrders(result) ==
    {o \in [1..Len(result.Series) ->
                UNION {VisitOrders(DOMAIN result.Series[i].Tags) : i \in 1..Len(result.Series)}] :
        \A i \in 1..Len(result.Series) : o[i] \in VisitOrders(DOMAIN result.Series[i].Tags)}

FormatResults ==
    /\ pc = "call"
    /\ \E orders \in IterationOrders(input) :
           /\ tagOrders' = orders
           /\ rows' = formatResults(input, Format, <<TAB>>, orders)
    /\ pc' = "done"
    /\ UNCHANGED loopVars
    /\ UNCHANGED <<input, ident, remainder, Database, RetentionPolicy, Format, Pretty,
                   written, w, streams>>

---------------------------------------------------------------------------
(* Bounded inputs of the formatter *)

\* The most value rows of a series, and the most series of a result.
MaxRows == 2
MaxSeries == 2

\* "", "cpu"
Names == {Empty, <<99, 112, 117>>}

\* The tag maps over the keys a, a0 and b with the value 1, and {b=2, a=1}. The
\* keys a and a0 sort one way alone and the other way as a=1 and a0=1.
TagKeys == {<<97>>, <<97, 48>>, <<98>>}
TagsExample == (<<98>> :> <<50>>) @@ (<<97>> :> <<49>>)
TagMaps == {[k \in K |-> <<49>>] : K \in SUBSET TagKeys} \cup {TagsExample}

\* [], [time], [time, value]
ColumnLists == {<<>>, <<<<116, 105, 109, 101>>>>,
                <<<<116, 105, 109, 101>>, <<118, 97, 108, 117, 101>>>>}

\* nil, true, false, 0, 1, -12, 0.5, 1.0 (a float64), "", "x", "-" and a
\* string holding a tab, `x<TAB>y`
ScalarList ==
    <<[type |-> "nil", val |-> 0],
      [type |-> "int", val |-> 0],
      [type |-> "int", val |-> 1],
      [type |-> "bool", val |-> TRUE],
      [type |-> "bool", val |-> FALSE],
      [type |-> "int", val |-> -12],
      [type |-> "float", val |-> 1],
      [type |-> "float", val |-> 2],
      [type |-> "string", val |-> Empty],
      [type |-> "string", val |-> <<120>>],
      [type |-> "string", val |-> <<DASH>>],
      [type |-> "string", val |-> <<120, TAB, 121>>]>>

\* The rows of n cells that run through ScalarList from some place on.
RowsOf(n) ==
    {[c \in 1..n |-> ScalarList[((off + c - 1) % Len(ScalarList)) + 1]] :
        off \in 0..(Len(ScalarList) - 1)}

\* Every row of a series has as many values as the series has columns.
ValuesOf(n) == UNION {[1..k -> RowsOf(n)] : k \in 0..MaxRows}

RichSeries ==
    {[Name |-> name, Tags |-> tags, Columns |-> columns, Values |-> values] :
        name \in Names, tags \in TagMaps, columns \in ColumnLists,
        values \in UNION {ValuesOf(n) : n \in 0..2}}

AllSeries == {s \in RichSeries : \A r \in 1..Len(s.Values) : Len(s.Values[r]) = Len(s.Columns)}

\* The series of the results that hold several: [time, value] with no row or the
\* row [0, 1], with or without a name, with no tag or the tags {b=2, a=1}.
PlainSeries ==
    {s \in AllSeries :
        /\ Len(s.Columns) = 2
        /\ s.Tags \in {TagsExample, <<>>}
        /\ \A r \in 1..Len(s.Values) : s.Values[r] = <<ScalarList[2], ScalarList[3]>>
        /\ Len(s.Values) <= 1}

Results ==
    {[Series |-> series] :
        series \in {<<>>} \cup {<<s>> : s \in AllSeries}
                   \cup UNION {[1..n -> PlainSeries] : n \in 2..MaxSeries}}

InitFormat ==
    /\ input \in Results
    /\ Format \in {"csv", "column"}
    /\ pc = "call"
    /\ ident = Empty
    /\ remainder = Empty
    /\ Database = Empty
    /\ RetentionPolicy = Empty
    /\ Pretty = FALSE
    /\ written = <<>>
    /\ tagOrders = <<>>
    /\ rows = <<>>
    /\ w = "stdout"
    /\ streams = [stdout |-> <<>>, buffer |-> <<>>]
    /\ LoopDefaults

NextFormat == FormatResults

SpecFormat == InitFormat /\ [][NextFormat]_vars

---------------------------------------------------------------------------
(* FormatResponse: writeJSON, writeCSV, writeColumns *)

\* encoding/csv: a field is quoted when it holds a comma, a double quote, a
\* carriage return or a newline, starts with a space character, or is `\.`.
fieldNeedsQuotes(field) ==
    /\ Len(field) > 0
    /\ \/ field = <<BSLASH, DOT>>
       \/ \E j \in 1..Len(field) : field[j] \in {COMMA, QUOTE, CR, NL}
       \/ field[1] \in {SP, TAB, NL, VT, FF, CR}

\* A quoted field's text: every double quote doubled.
RECURSIVE csvEscape(_)
csvEscape(field) ==
    IF Len(field) = 0 THEN Empty
    ELSE (IF field[1] = QUOTE THEN <<QUOTE, QUOTE>> ELSE <<field[1]>>) \o csvEscape(Tail(field))

csvField(field) ==
    IF fieldNeedsQuotes(field) THEN <<QUOTE>> \o csvEscape(field) \o <<QUOTE>> ELSE field

\* csv.Writer.Write(record): the line it puts on the stream at the next Flush.
csvWrite(record) ==
    [via |-> "csv", msg |-> "",
     text |-> Join([j \in 1..Len(record) |-> csvField(record[j])], <<COMMA>>) \o <<NL>>,
     record |-> record]

\* writeCSV: every row of every result split on the tab and written as a CSV
\* record to the writer it was given.
RECURSIVE writeCSV(_, _, _)
writeCSV(results, i, orders) ==
    IF i > Len(results) THEN <<>>
    ELSE LET lines == formatResults(results[i], "csv", <<TAB>>, orders[i])
         IN  [j \in 1..Len(lines) |-> csvWrite(Split(lines[j], TAB))]
             \o writeCSV(results, i + 1, orders)

\* writeColumns: every row of every result printed with Fprintln on a tabwriter
\* that is set up on os.Stdout and flushed after each result.
RECURSIVE writeColumns(_, _, _)
writeColumns(results, i, orders) ==
    IF i > Len(results) THEN <<>>
    ELSE LET lines == formatResults(results[i], "column", <<TAB>>, orders[i])
         IN  [j \in 1..Len(lines) |->
                 [via |-> "tabwriter", msg |-> "", text |-> lines[j], record |-> <<>>]]
             \o writeColumns(results, i + 1, orders)

\* writeJSON: the response marshalled, indented when Pretty is set, and printed
\* as one document; a line saying so when the response cannot be marshalled.
writeJSON(marshalled, pretty) ==
    IF marshalled
    THEN <<[via |-> "json", msg |-> IF pretty THEN "MarshalIndent" ELSE "Marshal",
            text |-> Empty, record |-> <<>>]>>
    ELSE <<Printed("Unable to parse json: %s", Empty)>>

\* The stream writeColumns writes to: the tabwriter's, whatever writer the caller
\* passed.
columnsStream(writer) == "stdout"

\* FormatResponse(response, w)
FormatResponse ==
    /\ pc = "call"
    /\ \E orders \in {o \in [1..Len(input.Results) ->
                              UNION {IterationOrders(input.Results[i]) :
                                         i \in 1..Len(input.Results)}] :
                        \A i \in 1..Len(input.Results) :
                            o[i] \in IterationOrders(input.Results[i])},
          marshalled \in BOOLEAN :
           /\ tagOrders' = IF Format \in {"csv", "column"} THEN orders ELSE <<>>
           /\ streams' =
                CASE Format = "json" ->
                       [streams EXCEPT ![w] = @ \o writeJSON(marshalled, Pretty)]
                  [] Format = "csv" ->
                       [streams EXCEPT ![w] = @ \o writeCSV(input.Results, 1, orders)]
                  [] Format = "column" ->
                       [streams EXCEPT ![columnsStream(w)] =
                           @ \o writeColumns(input.Results, 1, orders)]
                  [] OTHER ->
                       [streams EXCEPT ![w] =
                           @ \o <<Printed("Unknown output format %q.", Empty)>>]
    /\ pc' = "done"
    /\ UNCHANGED loopVars
    /\ UNCHANGED <<input, ident, remainder, Database, RetentionPolicy, Format, Pretty,
                   written, rows, w>>

\* The most results of a response.
MaxResults == 2

\* A response of one result, of several results of one plain series each, or of none.
Responses ==
    {[Results |-> results] :
        results \in {<<>>} \cup {<<r>> : r \in Results}
                    \cup UNION {[1..n -> {[Series |-> <<s>>] : s \in PlainSeries}] :
                                    n \in 2..MaxResults}}

InitResponse ==
    /\ input \in Responses
    /\ Format \in {"json", "csv", "column", "xml"}
    /\ Pretty \in BOOLEAN
    /\ w \in {"stdout", "buffer"}
    /\ pc = "call"
    /\ ident = Empty
    /\ remainder = Empty
    /\ Database = Empty
    /\ RetentionPolicy = Empty
    /\ written = <<>>
    /\ tagOrders = <<>>
    /\ rows = <<>>
    /\ streams = [stdout |-> <<>>, buffer |-> <<>>]
    /\ LoopDefaults

NextResponse == FormatResponse

SpecResponse == InitResponse /\ [][NextResponse]_vars

---------------------------------------------------------------------------
(* The interactive loop: Run, ParseCommand and the commands it dispatches *)

SEMICOLON == 59

\* unicode.IsSpace on the characters below 128, which strings.TrimSpace and
\* strings.Fields use.
isSpace(ch) == ch \in {TAB, NL, VT, FF, CR, SP}

RECURSIVE TrimLeftSpace(_)
TrimLeftSpace(s) == IF Len(s) > 0 /\ isSpace(s[1]) THEN TrimLeftSpace(Tail1(s)) ELSE s

RECURSIVE TrimRightSpace(_)
TrimRightSpace(s) ==
    IF Len(s) > 0 /\ isSpace(s[Len(s)]) THEN TrimRightSpace(SubSeq(s, 1, Len(s) - 1)) ELSE s

\* strings.TrimSpace
TrimSpace(s) == TrimRightSpace(TrimLeftSpace(s))

\* strings.Fields
Fields(s) == FieldsFunc(s, [i \in 1..Len(s) |-> isSpace(s[i])])

\* strings.TrimSuffix
TrimSuffix(s, p) ==
    IF Len(p) <= Len(s) /\ SubSeq(s, Len(s) - Len(p) + 1, Len(s)) = p
    THEN SubSeq(s, 1, Len(s) - Len(p)) ELSE s

\* strings.Replace(s, old, "", -1) for a non-empty old: every occurrence of old,
\* found from left to right, taken out.
RECURSIVE Replace(_, _)
Replace(s, old) ==
    IF Len(s) = 0 THEN s
    ELSE IF HasPrefix(s, old) THEN Replace(SubSeq(s, Len(old) + 1, Len(s)), old)
         ELSE <<s[1]>> \o Replace(Tail1(s), old)

\* The first words ParseCommand knows.
CMD_EXIT == <<101, 120, 105, 116>>
CMD_GOPHER == <<103, 111, 112, 104, 101, 114>>
CMD_CONNECT == <<99, 111, 110, 110, 101, 99, 116>>
CMD_AUTH == <<97, 117, 116, 104>>
CMD_HELP == <<104, 101, 108, 112>>
CMD_HISTORY == <<104, 105, 115, 116, 111, 114, 121>>
CMD_FORMAT == <<102, 111, 114, 109, 97, 116>>
CMD_PRECISION == <<112, 114, 101, 99, 105, 115, 105, 111, 110>>
CMD_CONSISTENCY == <<99, 111, 110, 115, 105, 115, 116, 101, 110, 99, 121>>
CMD_SETTINGS == <<115, 101, 116, 116, 105, 110, 103, 115>>
CMD_PRETTY == <<112, 114, 101, 116, 116, 121>>
CMD_USE == <<117, 115, 101>>
CMD_INSERT == <<105, 110, 115, 101, 114, 116>>

\* The formats SetFormat accepts: "json", "csv", "column".
FormatNames == (<<106, 115, 111, 110>> :> "json") @@ (<<99, 115, 118>> :> "csv") @@ (<<99, 111, 108, 117, 109, 110>> :> "column")

\* The precisions SetPrecision accepts: h, m, s, ms, u, ns and rfc3339.
PrecisionNames == {<<104>>, <<109>>, <<115>>, <<109, 115>>, <<117>>, <<110, 115>>, <<114, 102, 99, 51, 51, 51, 57>>}

\* The levels cluster.ParseConsistencyLevel accepts: any, one, quorum, all.
ConsistencyLevels == {<<97, 110, 121>>, <<111, 110, 101>>, <<113, 117, 111, 114, 117, 109>>, <<97, 108, 108>>}

\* How the server answers a query or a write.
ServerReplies == {"ok", "transport error", "response error"}

\* The fields of the shell a command can change besides Quit, and what it prints.
say(lines) == streams' = [streams EXCEPT !.stdout = @ \o lines]

\* use(cmd): the second of the two words of the line, split at single spaces,
\* becomes the database.
use(cmd) ==
    LET args == Split(TrimSuffix(TrimSpace(cmd), <<SEMICOLON>>), SP)
    IN  /\ IF Len(args) # 2
           THEN /\ Database' = Database
                /\ say(<<Printed("Could not parse database name from %q.", cmd)>>)
           ELSE /\ Database' = args[2]
                /\ say(<<Printed("Using database %s", args[2])>>)
        /\ reply' = "none"
        /\ UNCHANGED <<Quit, RetentionPolicy, Format, Pretty, written, tagOrders, prompts>>

\* SetFormat(cmd)
SetFormat(cmd) ==
    LET name == ToLower(TrimSpace(Replace(cmd, CMD_FORMAT)))
    IN  /\ IF name \in DOMAIN FormatNames
           THEN /\ Format' = FormatNames[name]
                /\ streams' = streams
           ELSE /\ Format' = Format
                /\ say(<<Printed("Unknown format %q. Please use json, csv, or column.", name)>>)
        /\ reply' = "none"
        /\ UNCHANGED <<Quit, Database, RetentionPolicy, Pretty, written, tagOrders, prompts>>

\* SetPrecision(cmd); the Precision field is not part of this model.
SetPrecision(cmd) ==
    LET name == ToLower(TrimSpace(Replace(cmd, CMD_PRECISION)))
    IN  /\ IF name \in PrecisionNames
           THEN streams' = streams
           ELSE say(<<Printed("Unknown precision %q. Please use rfc3339, h, m, s, ms, u or ns.",
                              name)>>)
        /\ reply' = "none"
        /\ UNCHANGED <<Quit, Database, RetentionPolicy, Format, Pretty, written, tagOrders,
                       prompts>>

\* SetWriteConsistency(cmd); the WriteConsistency field is not part of this model.
SetWriteConsistency(cmd) ==
    LET name == ToLower(TrimSpace(Replace(cmd, CMD_CONSISTENCY)))
    IN  /\ IF name \in ConsistencyLevels
           THEN streams' = streams
           ELSE say(<<Printed("Unknown consistency level %q. Please use any, one, quorum, or all.",
                              name)>>)
        /\ reply' = "none"
        /\ UNCHANGED <<Quit, Database, RetentionPolicy, Format, Pretty, written, tagOrders,
                       prompts>>

\* SetAuth(cmd): the credentials are read from the terminal unless the line gives
\* both; the Username and Password fields are not part of this model.
SetAuth(cmd) ==
    /\ IF Len(Fields(cmd)) = 3
       THEN UNCHANGED <<prompts, streams>>
       ELSE /\ prompts' = prompts + 1
            /\ \E e \in BOOLEAN :
                   IF e THEN say(<<Printed("Unable to process input: %s", Empty)>>)
                   ELSE streams' = streams
    /\ reply' = "none"
    /\ UNCHANGED <<Quit, Database, RetentionPolicy, Format, Pretty, written, tagOrders>>

\* Connect(cmd) as ParseCommand calls it: the error is dropped, and the Client and
\* ServerVersion fields it sets are not part of this model.
Connect(cmd) ==
    /\ reply' = "none"
    /\ UNCHANGED <<Quit, Database, RetentionPolicy, Format, Pretty, written, tagOrders,
                   streams, prompts>>

\* help(), gopher() and history(): one piece of text printed.
help ==
    /\ say(<<Printed("Usage: ...", Empty)>>)
    /\ reply' = "none"
    /\ UNCHANGED <<Quit, Database, RetentionPolicy, Format, Pretty, written, tagOrders,
                   prompts>>

gopher ==
    /\ say(<<Printed("gopher", Empty)>>)
    /\ reply' = "none"
    /\ UNCHANGED <<Quit, Database, RetentionPolicy, Format, Pretty, written, tagOrders,
                   prompts>>

showHistory ==
    /\ say(<<Printed("%s", Join(history, <<NL>>))>>)
    /\ reply' = "none"
    /\ UNCHANGED <<Quit, Database, RetentionPolicy, Format, Pretty, written, tagOrders,
                   prompts>>

\* Settings(): the settings, one a line, on a tabwriter set up on os.Stdout.
Settings ==
    /\ say([j \in 1..7 |->
              [via |-> "tabwriter",
               msg |-> <<"Host\t%s", "Username\t%s", "Database\t%s", "Pretty\t%v",
                         "Format\t%s", "Write Consistency\t%s", "">>[j],
               text |-> IF j = 3 THEN Database ELSE Empty,
               record |-> <<>>]])
    /\ reply' = "none"
    /\ UNCHANGED <<Quit, Database, RetentionPolicy, Format, Pretty, written, tagOrders,
                   prompts>>

\* case "pretty"
pretty ==
    /\ Pretty' = ~Pretty
    /\ say(<<Printed(IF ~Pretty THEN "Pretty print enabled" ELSE "Pretty print disabled",
                     Empty)>>)
    /\ reply' = "none"
    /\ UNCHANGED <<Quit, Database, RetentionPolicy, Format, written, tagOrders, prompts>>

\* The hint Insert adds to a failed write.
insertHint(db) == IF db = Empty THEN InsertHint ELSE <<>>

\* c.Insert(cmd) as ParseCommand calls it, the server answering the write as it
\* decides; Client.Write reports every failure as its error.
insertCommand(stmt) ==
    LET first == parseNextIdentifier(stmt)
    IN  IF ~EqualFold(first[1], KW_INSERT)
        THEN /\ say(<<Printed("ERR: found %s, expected INSERT", first[1])>>)
             /\ reply' = "none"
             /\ UNCHANGED <<Quit, Database, RetentionPolicy, Format, Pretty, written,
                            tagOrders, prompts>>
        ELSE LET second == parseNextIdentifier(first[2])
                 into == IF EqualFold(second[1], KW_INTO)
                         THEN parseInto(second[2], Database, RetentionPolicy)
                         ELSE [Database |-> Database,
                               RetentionPolicy |-> RetentionPolicy,
                               point |-> first[2],
                               out |-> <<>>]
             IN  /\ Database' = into.Database
                 /\ RetentionPolicy' = into.RetentionPolicy
                 /\ written' = Append(written,
                        [Raw |-> into.point,
                         Database |-> into.Database,
                         RetentionPolicy |-> into.RetentionPolicy,
                         Precision |-> "n"])
                 /\ \E r \in ServerReplies :
                        /\ reply' = r
                        /\ say(into.out
                               \o (IF r # "ok"
                                   THEN <<Printed("ERR: %s", Empty)>> \o insertHint(into.Database)
                                   ELSE <<>>))
                 /\ UNCHANGED <<Quit, Format, Pretty, tagOrders, prompts>>

\* The warning ExecuteQuery adds to a response that carries an error.
QueryHint ==
    <<Printed("Warning: It is possible this error is due to not setting a database.", Empty),
      Printed("Please set a database with the command \"use <database>\".", Empty)>>

queryHintAlways(db) == QueryHint

queryHint(db) == IF db = Empty THEN QueryHint ELSE <<>>

\* The responses the server sends in this model: no result, or one result of the
\* series [time] with the row [0].
QueryResponses ==
    {[Results |-> <<>>],
     [Results |-> <<[Series |-> <<[Name |-> Empty, Tags |-> <<>>,
                                  Columns |-> <<<<116, 105, 109, 101>>>>,
                                  Values |-> <<<<ScalarList[2]>>>>]>>]>>]}

\* One visiting order of the tag maps for each result of the response.
ResponseOrders(response) ==
    {o \in [1..Len(response.Results) ->
               UNION {IterationOrders(response.Results[i]) : i \in 1..Len(response.Results)}] :
        \A i \in 1..Len(response.Results) : o[i] \in IterationOrders(response.Results[i])}

\* What FormatResponse(response, os.Stdout) puts on the terminal.
responseLines(response, orders, marshalled) ==
    CASE Format = "json" -> writeJSON(marshalled, Pretty)
      [] Format = "csv" -> writeCSV(response.Results, 1, orders)
      [] Format = "column" -> writeColumns(response.Results, 1, orders)
      [] OTHER -> <<Printed("Unknown output format %q.", Empty)>>

\* ExecuteQuery(query), the server answering as it decides.
ExecuteQuery(query) ==
    /\ \E r \in ServerReplies :
           /\ reply' = r
           /\ IF r = "transport error"
              THEN /\ say(<<Printed("ERR: %s", Empty)>>)
                   /\ tagOrders' = tagOrders
              ELSE \E response \in QueryResponses :
                   \E orders \in ResponseOrders(response),
                      marshalled \in IF Format = "json" THEN BOOLEAN ELSE {TRUE} :
                       /\ tagOrders' = IF Format \in {"csv", "column"} THEN orders ELSE <<>>
                       /\ say(responseLines(response, orders, marshalled)
                              \o (IF r = "response error"
                                  THEN <<Printed("ERR: %s", Empty)>> \o queryHint(Database)
                                  ELSE <<>>))
    /\ UNCHANGED <<Quit, Database, RetentionPolicy, Format, Pretty, written, prompts>>

\* case "exit": close(c.Quit) on the open channel.
closeQuit ==
    /\ Quit' = "closed"
    /\ reply' = "none"
    /\ UNCHANGED <<Database, RetentionPolicy, Format, Pretty, written, tagOrders, streams,
                   prompts>>

\* The words of the line ParseCommand switches on.
tokensOf(cmd) == Fields(TrimSpace(ToLower(cmd)))

\* ParseCommand(l) for the line the prompt returned. Closing a closed channel
\* panics, which ends the program.
ParseCommand ==
    /\ pc = "ParseCommand"
    /\ LET tokens == tokensOf(input)
       IN  IF Len(tokens) = 0
           THEN /\ returned' = FALSE
                /\ pc' = "AppendHistory"
                /\ reply' = "none"
                /\ UNCHANGED <<Quit, Database, RetentionPolicy, Format, Pretty, written,
                               tagOrders, streams, prompts>>
           ELSE IF tokens[1] = CMD_EXIT /\ Quit = "closed"
                THEN /\ pc' = "panic"
                     /\ UNCHANGED <<returned, reply, Quit, Database, RetentionPolicy, Format,
                                    Pretty, written, tagOrders, streams, prompts>>
                ELSE /\ returned' = TRUE
                     /\ pc' = "AppendHistory"
                     /\ CASE tokens[1] = CMD_EXIT -> closeQuit
                          [] tokens[1] = CMD_GOPHER -> gopher
                          [] tokens[1] = CMD_CONNECT -> Connect(input)
                          [] tokens[1] = CMD_AUTH -> SetAuth(input)
                          [] tokens[1] = CMD_HELP -> help
                          [] tokens[1] = CMD_HISTORY -> showHistory
                          [] tokens[1] = CMD_FORMAT -> SetFormat(input)
                          [] tokens[1] = CMD_PRECISION -> SetPrecision(input)
                          [] tokens[1] = CMD_CONSISTENCY -> SetWriteConsistency(input)
                          [] tokens[1] = CMD_SETTINGS -> Settings
                          [] tokens[1] = CMD_PRETTY -> pretty
                          [] tokens[1] = CMD_USE -> use(input)
                          [] tokens[1] = CMD_INSERT -> insertCommand(input)
                          [] OTHER -> ExecuteQuery(input)
    /\ UNCHANGED <<input, ident, remainder, rows, w, osSignals, history>>

\* The places of the loop where the program is running.
Running == {"select", "ParseCommand", "AppendHistory"}

\* The operating system delivers a signal signal.Notify asked for: it is put in
\* osSignals when there is room and dropped when there is none.
Signal ==
    /\ pc \in Running
    /\ osSignals' = 1
    /\ UNCHANGED <<input, pc, ident, remainder, Database, RetentionPolicy, Format, Pretty,
                   written, tagOrders, rows, w, streams, Quit, prompts, returned, reply,
                   history>>

\* case <-c.osSignals: close(c.Quit)
SelectSignal ==
    /\ pc = "select"
    /\ osSignals > 0
    /\ osSignals' = osSignals - 1
    /\ IF Quit = "open"
       THEN /\ Quit' = "closed"
            /\ pc' = "select"
       ELSE /\ Quit' = Quit
            /\ pc' = "panic"
    /\ UNCHANGED <<input, ident, remainder, Database, RetentionPolicy, Format, Pretty,
                   written, tagOrders, rows, w, streams, prompts, returned, reply, history>>

\* case <-c.Quit: c.exit(), which writes the history file and ends the program.
SelectQuit ==
    /\ pc = "select"
    /\ Quit = "closed"
    /\ \E err \in BOOLEAN :
           IF err THEN say(<<Printed("There was an error writing history file: %s", Empty)>>)
           ELSE streams' = streams
    /\ pc' = "exit"
    /\ UNCHANGED <<input, ident, remainder, Database, RetentionPolicy, Format, Pretty,
                   written, tagOrders, rows, w, Quit, osSignals, prompts, returned, reply,
                   history>>

\* The most lines the terminal is asked for.
MaxPrompts == 2

\* "", two spaces, exit, EXIT, ` exit now`, `use d`, `USE  d`, pretty, `format csv`,
\* `FORMAT csv`, `insert into d.r a`, `INSERT a`, a vertical tab before `insert a`,
\* select, help, settings, history, gopher, `connect h`, auth, `auth u p`,
\* `precision ns`, `consistency x`
CommandLines ==
    {<<>>,
     <<32, 32>>,
     <<101, 120, 105, 116>>,
     <<69, 88, 73, 84>>,
     <<32, 101, 120, 105, 116, 32, 110, 111, 119>>,
     <<117, 115, 101, 32, 100>>,
     <<85, 83, 69, 32, 32, 100>>,
     <<112, 114, 101, 116, 116, 121>>,
     <<102, 111, 114, 109, 97, 116, 32, 99, 115, 118>>,
     <<70, 79, 82, 77, 65, 84, 32, 99, 115, 118>>,
     <<105, 110, 115, 101, 114, 116, 32, 105, 110, 116, 111, 32, 100, 46, 114, 32, 97>>,
     <<73, 78, 83, 69, 82, 84, 32, 97>>,
     <<11, 105, 110, 115, 101, 114, 116, 32, 97>>,
     <<115, 101, 108, 101, 99, 116>>,
     <<104, 101, 108, 112>>,
     <<115, 101, 116, 116, 105, 110, 103, 115>>,
     <<104, 105, 115, 116, 111, 114, 121>>,
     <<103, 111, 112, 104, 101, 114>>,
     <<99, 111, 110, 110, 101, 99, 116, 32, 104>>,
     <<97, 117, 116, 104>>,
     <<97, 117, 116, 104, 32, 117, 32, 112>>,
     <<112, 114, 101, 99, 105, 115, 105, 111, 110, 32, 110, 115>>,
     <<99, 111, 110, 115, 105, 115, 116, 101, 110, 99, 121, 32, 120>>}

\* default: the prompt is read when neither channel is ready; a prompt that fails
\* breaks out of the select, and a line is handed to ParseCommand.
Prompt ==
    /\ pc = "select"
    /\ osSignals = 0
    /\ Quit = "open"
    /\ prompts < MaxPrompts
    /\ prompts' = prompts + 1
    /\ \/ UNCHANGED <<input, pc>>
       \/ \E l \in CommandLines :
              /\ input' = l
              /\ pc' = "ParseCommand"
    /\ UNCHANGED <<ident, remainder, Database, RetentionPolicy, Format, Pretty, written,
                   tagOrders, rows, w, streams, Quit, osSignals, returned, reply, history>>

\* The line goes to the history, and the history to its file, when ParseCommand
\* returned true.
AppendHistory ==
    /\ pc = "AppendHistory"
    /\ IF returned
       THEN /\ history' = Append(history, input)
            /\ \E err \in BOOLEAN :
                   IF err
                   THEN say(<<Printed("There was an error writing history file: %s", Empty)>>)
                   ELSE streams' = streams
       ELSE UNCHANGED <<history, streams>>
    /\ pc' = "select"
    /\ UNCHANGED <<input, ident, remainder, Database, RetentionPolicy, Format, Pretty,
                   written, tagOrders, rows, w, Quit, osSignals, prompts, returned, reply>>

\* The loop of Run is entered with the database and the format the flags gave.
InitRun ==
    /\ input = Empty
    /\ pc = "select"
    /\ ident = Empty
    /\ remainder = Empty
    /\ Database \in PriorDatabases
    /\ RetentionPolicy = Empty
    /\ Format \in {"column", "json"}
    /\ Pretty = FALSE
    /\ written = <<>>
    /\ tagOrders = <<>>
    /\ rows = <<>>
    /\ w = "stdout"
    /\ streams = [stdout |-> <<>>, buffer |-> <<>>]
    /\ LoopDefaults

NextRun == Signal \/ SelectSignal \/ SelectQuit \/ Prompt \/ ParseCommand \/ AppendHistory

SpecRun == InitRun /\ [][NextRun]_vars

---------------------------------------------------------------------------
(* Claims about the identifier parser *)

\* The input without its leading spaces, tabs and newlines.
RECURSIVE SkipLeading(_)
SkipLeading(s) ==
    IF Len(s) > 0 /\ s[1] \in {SP, TAB, NL} THEN SkipLeading(SubSeq(s, 2, Len(s))) ELSE s

\* The index of the first double quote at or after i that no backslash escapes,
\* a backslash escaping exactly the one character after it; 0 when there is none.
RECURSIVE ClosingQuote(_, _, _)
ClosingQuote(s, i, escaped) ==
    IF i > Len(s) THEN 0
    ELSE IF escaped THEN ClosingQuote(s, i + 1, FALSE)
    ELSE IF s[i] = BSLASH THEN ClosingQuote(s, i + 1, TRUE)
    ELSE IF s[i] = QUOTE THEN i
    ELSE ClosingQuote(s, i + 1, FALSE)

\* C6: when the first non-whitespace character of the input is a double quote and
\* a later unescaped double quote closes it, parseNextIdentifier returns the
\* characters between the two quotes as identifier (the empty identifier for `""`)
\* and the text after the closing quote as remainder.
C6_QuotedIdentifier ==
    LET body == SkipLeading(input)
        close == ClosingQuote(body, 2, FALSE)
    IN  (pc = "done" /\ Len(body) > 0 /\ body[1] = QUOTE /\ close > 0)
        => /\ ident = SubSeq(body, 2, close - 1)
           /\ remainder = SubSeq(body, close + 1, Len(body))

\* C7: on the input ` "a\"b" rest` parseNextIdentifier returns the identifier
\* a"b, three characters with the backslash removed, and the remainder ` rest`.
C7_EscapedQuoteUnescaped ==
    (pc = "done" /\ input = QuotedExample)
    => /\ ident = <<97, QUOTE, 98>>
       /\ remainder = <<SP, 114, 101, 115, 116>>

\* The inputs with nothing to parse: empty, all whitespace, or a first
\* non-whitespace character that is no ASCII letter, underscore or double quote.
NothingToParse(s) ==
    LET body == SkipLeading(s)
    IN  \/ Len(body) = 0
        \/ ~(\/ (body[1] >= 97 /\ body[1] <= 122)
             \/ (body[1] >= 65 /\ body[1] <= 90)
             \/ body[1] = 95
             \/ body[1] = 34)

\* C8 as stated: on an input with nothing to parse, parseNextIdentifier returns
\* the empty identifier and the original input, leading whitespace included.
C8_ReturnsInputUnchanged ==
    (pc = "done" /\ NothingToParse(input))
    => (ident = Empty /\ remainder = input)

\* C8 as amended: on an input with nothing to parse, parseNextIdentifier returns
\* the empty identifier and the input without its leading whitespace.
C8_ReturnsInputWithoutLeadingWhitespace ==
    (pc = "done" /\ NothingToParse(input))
    => (ident = Empty /\ remainder = SkipLeading(input))

\* A call on an input that starts with whitespace and has nothing to parse after it.
C8_Witness ==
    /\ pc = "done"
    /\ NothingToParse(input)
    /\ Len(input) > 1
    /\ input[1] = TAB
    /\ remainder # Empty
    /\ remainder # input

---------------------------------------------------------------------------
(* Claims about INSERT *)

\* C9: an INSERT whose second identifier is INTO: when the identifier after INTO is
\* followed directly by a dot, Database becomes that identifier and a second
\* identifier is parsed after the dot, which becomes RetentionPolicy when a space
\* follows it; when the identifier after INTO is followed directly by a space,
\* RetentionPolicy becomes that identifier and Database keeps its prior value; in
\* both cases the point written is the text after that space. An INSERT without
\* INTO changes neither Database nor RetentionPolicy.
C9_InsertInto ==
    [][(pc = "call" /\ pc' = "done")
       => LET first == parseNextIdentifier(input)
              second == parseNextIdentifier(first[2])
              target == parseNextIdentifier(second[2])
              policy == parseNextIdentifier(Tail1(target[2]))
              hasInto == EqualFold(second[1], KW_INTO)
              point == written'[Len(written')].Raw
          IN  EqualFold(first[1], KW_INSERT)
              => /\ (hasInto /\ HasPrefix(target[2], <<DOT>>))
                    => /\ Database' = target[1]
                       /\ HasPrefix(policy[2], <<SP>>)
                          => /\ RetentionPolicy' = policy[1]
                             /\ point = Tail1(policy[2])
                 /\ (hasInto /\ HasPrefix(target[2], <<SP>>))
                    => /\ RetentionPolicy' = target[1]
                       /\ Database' = Database
                       /\ point = Tail1(target[2])
                 /\ ~hasInto
                    => /\ Database' = Database
                       /\ RetentionPolicy' = RetentionPolicy
                 /\ Len(written') = Len(written) + 1
                 /\ written'[Len(written')].Database = Database'
                 /\ written'[Len(written')].RetentionPolicy = RetentionPolicy'
      ]_vars

\* `INSERT INTO mydb.rp value` has run: Database is mydb, RetentionPolicy is rp
\* and the point written is `value`.
C9_Witness ==
    /\ pc = "done"
    /\ input = InsertDotExample
    /\ Database = <<109, 121, 100, 98>>
    /\ RetentionPolicy = <<114, 112>>
    /\ Len(written) = 1
    /\ written[1].Raw = <<118, 97, 108, 117, 101>>

---------------------------------------------------------------------------
(* Claims about formatResults *)

\* a comes before b in byte-wise lexicographic order.
Before(a, b) ==
    \E i \in 1..Len(b) :
        /\ \A j \in 1..(i - 1) : j <= Len(a) /\ a[j] = b[j]
        /\ (i > Len(a) \/ a[i] < b[i])

\* The tags of a series as key=value strings, in ascending order of the whole
\* string.
SortedTags(series) ==
    LET composed == {k \o <<61>> \o series.Tags[k] : k \in DOMAIN series.Tags}
    IN  CHOOSE q \in [1..Cardinality(composed) -> composed] :
            \A i, j \in 1..Cardinality(composed) : i < j => Before(q[i], q[j])

HasTags(series) == DOMAIN series.Tags # {}
Named(series) == series.Name # <<>>
Flag(b) == IF b THEN 1 ELSE 0

\* Column mode: the lines a series has before its first data row, the blank line
\* before a series that is not the first left out: the name line, the dashes
\* under it, the tags line, the header and the dashes under the header.
HeadLength(series) ==
    Flag(Named(series)) + Flag(Named(series) /\ ~HasTags(series)) + Flag(HasTags(series))
    + 1 + Flag(HasTags(series))

\* The number of lines of the i-th series of the list, from 1.
BlockLength(list, i, format) ==
    IF format = "column"
    THEN Flag(i > 1) + HeadLength(list[i]) + Len(list[i].Values) + 1
    ELSE 1 + Len(list[i].Values)

\* The index in rows of the first line of the i-th series.
RECURSIVE BlockStart(_, _, _)
BlockStart(list, i, format) ==
    IF i = 1 THEN 1 ELSE BlockStart(list, i - 1, format) + BlockLength(list, i - 1, format)

\* The index of the first line of the i-th series that is no separator.
FirstLine(list, i, format) ==
    BlockStart(list, i, format) + (IF format = "column" THEN Flag(i > 1) ELSE 0)

\* The values of a data row as text.
Rendered(v) == [j \in 1..Len(v) |-> interfaceToString(v[j])]

\* C1: the tags of every series are rendered as key=value strings in ascending
\* order of the whole string, whatever the order the tag map was visited in: in
\* column mode the tags line is `tags: ` and the strings joined with ", ", in CSV
\* mode the tags field of every data row is the strings joined with ",".
C1_TagsSorted ==
    pc = "done"
    => \A i \in 1..Len(input.Series) :
          LET s == input.Series[i]
              first == FirstLine(input.Series, i, Format)
          IN  HasTags(s)
              => /\ Format = "column"
                    => rows[first + Flag(Named(s))]
                       = <<116, 97, 103, 115, 58, 32>> \o Join(SortedTags(s), <<44, 32>>)
                 /\ Format = "csv"
                    => \A r \in 1..Len(s.Values) :
                          HasPrefix(rows[first + r],
                              (IF Named(s) THEN s.Name \o <<9>> ELSE <<>>)
                              \o Join(SortedTags(s), <<44>>)
                              \o (IF Len(s.Columns) > 0 THEN <<9>> ELSE <<>>))

\* The tags {b=2, a=1} were visited b first and the tags line is `tags: a=1, b=2`.
C1_Witness ==
    /\ pc = "done"
    /\ Format = "column"
    /\ Len(input.Series) = 1
    /\ input.Series[1].Tags = TagsExample
    /\ ~Named(input.Series[1])
    /\ tagOrders[1] = <<<<98>>, <<97>>>>
    /\ rows[1] = <<116, 97, 103, 115, 58, 32, 97, 61, 49, 44, 32, 98, 61, 50>>

\* C3: in column mode a result holding one series with no name and no tags and k
\* value rows is formatted as k+2 lines: the column names joined by a tab, the k
\* data rows in order, and one blank line.
C3_PlainSeriesLines ==
    (/\ pc = "done"
     /\ Format = "column"
     /\ Len(input.Series) = 1
     /\ ~Named(input.Series[1])
     /\ ~HasTags(input.Series[1]))
    => LET s == input.Series[1]
       IN  /\ Len(rows) = Len(s.Values) + 2
           /\ rows = <<Join(s.Columns, <<9>>)>>
                     \o [r \in 1..Len(s.Values) |-> Join(Rendered(s.Values[r]), <<9>>)]
                     \o <<<<>>>>

\* Columns [time, value] and the one row [0, 1] gave `time<TAB>value`, `0<TAB>1`
\* and an empty line.
C3_Witness ==
    /\ pc = "done"
    /\ Format = "column"
    /\ Len(input.Series) = 1
    /\ ~Named(input.Series[1])
    /\ ~HasTags(input.Series[1])
    /\ Len(input.Series[1].Values) = 1
    /\ rows = <<<<116, 105, 109, 101, 9, 118, 97, 108, 117, 101>>, <<48, 9, 49>>, <<>>>>

\* A line of dashes: one run of dashes or more, joined by tabs.
Dashed(line) == Len(line) > 0 /\ \A j \in 1..Len(line) : line[j] \in {45, 9}

\* A run of dashes under each of the names.
DashRuns(names) == Join([j \in 1..Len(names) |-> [x \in 1..Len(names[j]) |-> 45]], <<9>>)

\* C4: in column mode every series gets at most one dashed line. With tags, it
\* directly follows the header and has one run of dashes per column, as long as
\* the column's name, and none follows the name line. With a name and no tags,
\* one run as long as the `name: <name>` line directly follows that line and none
\* follows the header. With neither, there is none. The data rows follow.
C4_DashedLines ==
    (pc = "done" /\ Format = "column")
    => \A i \in 1..Len(input.Series) :
          LET s == input.Series[i]
              first == FirstLine(input.Series, i, Format)
              header == first + HeadLength(s) - 1 - Flag(HasTags(s))
              nameLine == <<110, 97, 109, 101, 58, 32>> \o s.Name
          IN  /\ Cardinality({j \in first..(first + HeadLength(s) - 1) : Dashed(rows[j])}) <= 1
              /\ rows[header] = Join(s.Columns, <<9>>)
              /\ HasTags(s)
                 => /\ rows[header + 1] = DashRuns(s.Columns)
                    /\ Named(s) => (rows[first] = nameLine /\ ~Dashed(rows[first + 1]))
                    /\ header = first + Flag(Named(s)) + 1
              /\ (Named(s) /\ ~HasTags(s))
                 => /\ rows[first] = nameLine
                    /\ rows[first + 1] = [x \in 1..Len(nameLine) |-> 45]
                    /\ header = first + 2
              /\ (~Named(s) /\ ~HasTags(s))
                 => header = first
              /\ \A r \in 1..Len(s.Values) :
                    rows[header + Flag(HasTags(s)) + r] = Join(Rendered(s.Values[r]), <<9>>)
              /\ rows[header + Flag(HasTags(s)) + Len(s.Values) + 1] = <<>>

\* A result of two series in column mode: the first has a name and tags, so its
\* header is underlined; the second has a name and no tags, so its name line is.
C4_Witness ==
    /\ pc = "done"
    /\ Format = "column"
    /\ Len(input.Series) = 2
    /\ Named(input.Series[1]) /\ HasTags(input.Series[1])
    /\ Named(input.Series[2]) /\ ~HasTags(input.Series[2])
    /\ Len(input.Series[1].Values) = 1
    /\ rows[4] = <<45, 45, 45, 45, 9, 45, 45, 45, 45, 45>>
    /\ rows[9] = <<45, 45, 45, 45, 45, 45, 45, 45, 45>>

\* C5: in column mode formatResults emits one blank line after the last data row
\* of every series and one more before every series but the first, and no other
\* separator: two blank lines stand between two series and one at the end. In CSV
\* mode it emits the header and the data rows of every series and nothing else.
C5_Separators ==
    pc = "done"
    => LET list == input.Series
           n == Len(list)
           last(i) == BlockStart(list, i, Format) + BlockLength(list, i, Format) - 1
       IN  /\ Len(rows) = IF n = 0 THEN 0 ELSE last(n)
           /\ Format = "column"
              => \A i \in 1..n :
                    /\ rows[last(i)] = <<>>
                    /\ i > 1 => /\ rows[BlockStart(list, i, Format)] = <<>>
                                /\ BlockStart(list, i, Format) = last(i - 1) + 1
                    /\ Len(list[i].Values) > 0
                       => rows[last(i) - 1]
                          = Join(Rendered(list[i].Values[Len(list[i].Values)]), <<9>>)
           /\ Format = "csv"
              => \A i \in 1..n :
                    \A r \in 1..Len(list[i].Values) :
                          \E k \in 0..Len(rows[BlockStart(list, i, Format) + r]) :
                              SubSeq(rows[BlockStart(list, i, Format) + r],
                                     k + 1, Len(rows[BlockStart(list, i, Format) + r]))
                              = Join(Rendered(list[i].Values[r]), <<9>>)

\* Two series with one row each in column mode: the first ends at line 3, lines 3
\* and 4 are blank, the second starts at line 5 and a blank line ends the output.
C5_Witness ==
    /\ pc = "done"
    /\ Format = "column"
    /\ Len(input.Series) = 2
    /\ \A i \in 1..2 : ~Named(input.Series[i]) /\ ~HasTags(input.Series[i])
                       /\ Len(input.Series[i].Values) = 1
    /\ Len(rows) = 7
    /\ rows[2] # <<>> /\ rows[3] = <<>> /\ rows[4] = <<>> /\ rows[5] # <<>>
    /\ rows[6] # <<>> /\ rows[7] = <<>>

---------------------------------------------------------------------------
(* Claims about FormatResponse *)

\* The CSV records the claim gives a series: the header, then the data rows.
SeriesRecords(s) ==
    <<(IF Named(s) THEN <<<<110, 97, 109, 101>>>> ELSE <<>>)
      \o (IF HasTags(s) THEN <<<<116, 97, 103, 115>>>> ELSE <<>>)
      \o s.Columns>>
    \o [r \in 1..Len(s.Values) |->
           (IF Named(s) THEN <<s.Name>> ELSE <<>>)
           \o (IF HasTags(s) THEN <<Join(SortedTags(s), <<44>>)>> ELSE <<>>)
           \o Rendered(s.Values[r])]

RECURSIVE ListRecords(_, _)
ListRecords(list, i) ==
    IF i > Len(list) THEN <<>> ELSE SeriesRecords(list[i]) \o ListRecords(list, i + 1)

RECURSIVE ResponseRecords(_, _)
ResponseRecords(results, i) ==
    IF i > Len(results) THEN <<>>
    ELSE ListRecords(results[i].Series, 1) \o ResponseRecords(results, i + 1)

\* C2: in CSV mode the records written for every series are the header, `name`
\* if the series has a name, `tags` if it has a tag, then the columns, and one
\* record per value row, the name if any, the sorted tags joined by commas if
\* any, then the rendered values; a record of no field at all being written as
\* one empty field. Every data record has as many fields as its header.
C2_CsvRecords ==
    (pc = "done" /\ Format = "csv")
    => LET expected == ResponseRecords(input.Results, 1)
       IN  /\ Len(streams[w]) = Len(expected)
           /\ \A j \in 1..Len(expected) :
                 streams[w][j].record = IF expected[j] = <<>> THEN <<<<>>>> ELSE expected[j]

\* The number of lines formatResults returns for the results from the i-th on.
RECURSIVE LineCount(_, _, _)
LineCount(results, i, format) ==
    IF i > Len(results) THEN 0
    ELSE (IF Len(results[i].Series) = 0 THEN 0
          ELSE BlockStart(results[i].Series, Len(results[i].Series), format)
               + BlockLength(results[i].Series, Len(results[i].Series), format) - 1)
         + LineCount(results, i + 1, format)

\* C10: in the modes json, csv and column, when FormatResponse(response, w) has
\* returned every line of the response is on the stream w and no other stream
\* has received anything.
C10_WritesToGivenStream ==
    (pc = "done" /\ Format \in {"json", "csv", "column"})
    => /\ \A other \in DOMAIN streams \ {w} : streams[other] = <<>>
       /\ Len(streams[w]) = IF Format = "json" THEN 1
                            ELSE LineCount(input.Results, 1, Format)

---------------------------------------------------------------------------
(* Claims about the interactive loop *)

\* The lines the step under way adds to the terminal.
Said == SubSeq(streams'.stdout, Len(streams.stdout) + 1, Len(streams'.stdout))

ErrLine(e) == e.via = "print" /\ e.msg = "ERR: %s"

\* A line that is not blank and whose command, its first word in lower case, is
\* not exit.
KeepsSession(l) == Len(tokensOf(l)) > 0 /\ tokensOf(l)[1] # CMD_EXIT

\* C11: for every line that is not blank and is not an exit command, ParseCommand
\* returns true, leaves Quit open and the loop running, whether the server
\* answered well, failed to answer or answered with an error; when it answered
\* with an error the command prints one ERR: line, and after it the hint to set a
\* database exactly when Database is empty, and nothing else.
C11_FailureKeepsSession ==
    [][(pc = "ParseCommand" /\ pc' # pc /\ KeepsSession(input))
       => /\ returned' = TRUE
          /\ Quit' = "open"
          /\ pc' = "AppendHistory"
          /\ reply' \in ServerReplies \cup {"none"}
          /\ reply' = "response error"
             => \E k \in 1..Len(Said) :
                    /\ ErrLine(Said[k])
                    /\ \A j \in 1..Len(Said) : ErrLine(Said[j]) => j = k
                    /\ LET after == SubSeq(Said, k + 1, Len(Said))
                       IN  IF Database' = Empty THEN after \in {QueryHint, InsertHint}
                           ELSE after = <<>>]_vars

\* A query the server answered with an error while no database was selected:
\* ParseCommand has returned true, Quit is open, and the terminal ends with the
\* ERR: line and the hint.
C11_Witness ==
    /\ pc = "AppendHistory"
    /\ KeepsSession(input)
    /\ reply = "response error"
    /\ returned
    /\ Quit = "open"
    /\ Database = Empty
    /\ LET out == streams.stdout
       IN  /\ Len(out) >= 3
           /\ SubSeq(out, Len(out) - 1, Len(out)) = QueryHint
           /\ ErrLine(out[Len(out) - 2])

\* C12: in every run of the loop, whatever the order of the signals delivered and
\* the exit commands typed, close(c.Quit) is never called on the closed channel
\* (the call panics), and once Quit is closed no step reads another line: the
\* loop goes on to c.exit().
C12_QuitClosedOnce ==
    [][Quit = "closed"
       => /\ pc' # "panic"
          /\ prompts' = prompts
          /\ pc' \in {"select", "AppendHistory", "exit"}]_vars

---------------------------------------------------------------------------
(* Progress of the identifier parser *)

IsSuffix(r, s) == Len(r) <= Len(s) /\ SubSeq(s, Len(s) - Len(r) + 1, Len(s)) = r

\* C13: when parseNextIdentifier has returned, the remainder is a suffix of the
\* input, and when the identifier is not empty the remainder is shorter than the
\* input, also for an input that opens a double quote and never closes it.
C13_Progress ==
    pc = "done"
    => /\ IsSuffix(remainder, input)
       /\ ident # Empty => Len(remainder) < Len(input)

===========================================================================
